---------------------------- MODULE Spec2Model ----------------------------
(***************************************************************************)
(* State-test harness of jsontests/src/state.rs: the precompile adapter    *)
(* (JsonPrecompile::exec_as_precompile), the fork -> precompile registry   *)
(* (JsonPrecompile::precompile, the lazy_static builtin tables) and the    *)
(* execution driver (test, test_run).                                      *)
(*                                                                         *)
(* Integer widths are scaled: u64 is U64Bits wide and U256 is U256Bits     *)
(* wide, with U64Bits < U256Bits, so that "does not fit in u64" and        *)
(* "overflows U256" are reachable.  U256 `*`, `-`, `+` panic on overflow   *)
(* (primitive_types), as_u64 panics when the value does not fit.           *)
(***************************************************************************)
EXTENDS Integers, Sequences, FiniteSets, TLC

\* ------------------------------------------------------------------ bounds
\* Scaled integer widths (u64, U256), the longest precompile input, the highest
\* address a builtin resource may define, the most variants one fork lists, the
\* most forks a vector's post-states name.
U64Bits == 2
U256Bits == 4
MaxInput == 2
MaxAddr == 10
MaxVariants == 2
MaxForks == 2

U64Max == 2 ^ U64Bits - 1
U256Max == 2 ^ U256Bits - 1

\* Option<u64>::None, and the marker of an arithmetic panic (both outside 0..).
NoGas == 0 - 1
Overflow == 0 - 1

\* ------------------------------------------------- checked integer arithmetic
\* U256 * u64, U256 * U256: panics on overflow.
WrappingMul(a, b) == (a * b) % (U256Max + 1)
CheckedMul(a, b) == IF a * b > U256Max THEN Overflow ELSE a * b

\* U256 - U256: panics on underflow.
CheckedSub(a, b) == IF a < b THEN Overflow ELSE a - b

\* U256 + U256: panics on overflow.
CheckedAdd(a, b) == IF a + b > U256Max THEN Overflow ELSE a + b

\* U256::as_u64: panics when the value does not fit in 64 bits.
AsU64(x) == IF x > U64Max THEN Overflow ELSE x

Min(a, b) == IF a < b THEN a ELSE b

\* ------------------------------------------------------------------ builtins
\* A builtin descriptor of a resource file: linear pricing (base + word * n)
\* and an implementation that either copies its input or rejects it.
BuiltinKinds == {"identity", "reject"}
Builtins == [base : 0..U64Max, word : 0..U64Max, kind : BuiltinKinds]

\* Input bytes: sequences over {0, 1} of length <= MaxInput.
Bytes == {0, 1}
Inputs == UNION {[1..n -> Bytes] : n \in 0..MaxInput}
GasLimits == {NoGas} \cup (0..U64Max)

\* builtin.cost(input, 0): a U256.
BuiltinCost(builtin, input) == builtin.base + builtin.word * Len(input)

\* builtin.execute(input, &mut output): Ok(()) with the output written, or Err.
BuiltinExecute(builtin, input) ==
    IF builtin.kind = "identity"
    THEN [ok |-> TRUE, output |-> input]
    ELSE [ok |-> FALSE, output |-> <<>>]

\* The out-of-gas test of exec_as_precompile (lines 134-135).
OutOfGasOffByOne(cost, gas_limit) ==
    gas_limit # NoGas /\ (cost > U64Max \/ gas_limit + 1 < AsU64(cost))
OutOfGas(cost, gas_limit) ==
    gas_limit # NoGas /\ (cost > U64Max \/ gas_limit < AsU64(cost))

\* What the Ok arm returns (lines 144-149); cost.as_u64() may panic.
PrecompileOutput(output, cost, gas_limit) ==
    IF AsU64(cost) = Overflow
    THEN [tag |-> "Panic"]
    ELSE [tag |-> "Ok", exit_status |-> "Stopped", output |-> output,
          cost |-> AsU64(cost), logs |-> <<>>]

\* exec_as_precompile: the value returned (tag Ok or Err) or the panic, and
\* whether builtin.execute was invoked.
exec_as_precompile(builtin, input, gas_limit) ==
    LET cost == BuiltinCost(builtin, input) IN
    IF OutOfGas(cost, gas_limit)
    THEN [result |-> [tag |-> "Err", exit_status |-> "OutOfGas"],
          executed |-> FALSE]
    ELSE LET r == BuiltinExecute(builtin, input) IN
         [result |-> IF r.ok
                     THEN PrecompileOutput(r.output, cost, gas_limit)
                     ELSE [tag |-> "Err", exit_status |-> "Other"],
          executed |-> TRUE]

\* ------------------------------------------------------------------ registry
\* ethjson::spec::ForkSpec values a vector may name; the two the harness runs.
Forks == {"Byzantium", "Istanbul", "Berlin"}

\* H160::from_low_u64_be(index): the address whose number is index.
FromLowU64Be(index) == index

\* The indexes the precompile_entry! invocations name (lines 84-92, 97-105).
PrecompileIndexes == 1..9

\* Addresses a builtin resource may define, and the descriptor a resource
\* gives an address.
ResourceAddrs == 1..MaxAddr
BuiltinAt(a) ==
    [base |-> a % (U64Max + 1), word |-> (a \div 2) % (U64Max + 1),
     kind |-> IF a % 3 = 0 THEN "reject" ELSE "identity"]
ResourceFile(addrs) == [a \in addrs |-> BuiltinAt(a)]

\* The resource contents considered: 1..n, and 1..9 with one address missing.
ResourceAddrSets ==
    {1..n : n \in 0..MaxAddr} \cup {PrecompileIndexes \ {k} : k \in PrecompileIndexes}
ResourceFiles == {ResourceFile(addrs) : addrs \in ResourceAddrSets}

\* The path each lazy_static reads (lines 53, 58).
Paths == {"istanbul_builtins.json", "berlin_builtins.json"}

\* builtins(spec_path): the table read from the resource at spec_path.
builtins(resources, spec_path) == resources[spec_path]

\* Dereferencing a lazy_static: the cached table, built on first use by
\* builtins(path) and never written again.
Deref(static, resources, spec_path) ==
    IF static.init THEN static.table ELSE builtins(resources, spec_path)
Forced(static, resources, spec_path) ==
    [init |-> TRUE, table |-> Deref(static, resources, spec_path)]

\* JsonPrecompile::precompile(spec): None, or the map from address to the
\* closure precompile_entry! builds, which names a static and an index.
NoRegistry == [some |-> FALSE, map |-> <<>>]
Entries(static, indexes) ==
    [some |-> TRUE,
     map |-> [a \in {FromLowU64Be(i) : i \in indexes}
                |-> [builtins |-> static, index |-> a]]]
PrecompileShort(spec) ==
    CASE spec = "Istanbul" -> Entries("ISTANBUL_BUILTINS", PrecompileIndexes \ {9})
      [] spec = "Berlin" -> Entries("BERLIN_BUILTINS", PrecompileIndexes \ {9})
      [] OTHER -> NoRegistry
precompile(spec) ==
    CASE spec = "Istanbul" -> Entries("ISTANBUL_BUILTINS", PrecompileIndexes)
      [] spec = "Berlin" -> Entries("BERLIN_BUILTINS", PrecompileIndexes)
      [] OTHER -> NoRegistry

PathOf(static) ==
    IF static = "ISTANBUL_BUILTINS" THEN "istanbul_builtins.json"
    ELSE "berlin_builtins.json"

\* The closure of precompile_entry! (lines 69-72) on a dereferenced table:
\* $builtins.get(&address).unwrap() panics when the table lacks the address.
EntryCall(table, entry, input, gas_limit) ==
    IF entry.index \notin DOMAIN table
    THEN [result |-> [tag |-> "Panic"], executed |-> FALSE]
    ELSE exec_as_precompile(table[entry.index], input, gas_limit)

\* ------------------------------------------------------------------- state
VARIABLES
    \* the process's files and statics
    resources,          \* path -> table of the builtin resource at that path
    ISTANBUL_BUILTINS,  \* lazy_static: [init, table]
    BERLIN_BUILTINS,    \* lazy_static: [init, table]
    \* a direct use of the adapter and of the registry
    a_pc,               \* "ready" | "returned" | "panicked"
    a_builtin,          \* the builtin exec_as_precompile is applied to
    a_call,             \* the last call's [input, gas_limit]
    a_ret,              \* the last call's [result, executed]
    r_spec,             \* the fork precompile() was last asked for
    r_registry,         \* what precompile(r_spec) returned
    r_call,             \* the last entry call: [address, input, gas_limit]
    r_ret,              \* its [result, executed]
    \* test(name, test) and the thread running test_run
    test,               \* the vector: [pre_state, transaction, gas_price, post_forks]
    main_pc,            \* test(): "start" | "joining" | "returned" | "panicked"
    pc,                 \* test_run(): the statement the thread is at
    fork_i,             \* position in test.post_states (1-based)
    variant_i,          \* enumerate() index i in the fork's states (0-based)
    spec,               \* the fork of the current iteration
    delete_empty,       \* the fork's empty-account policy
    original_state,     \* line 184
    vicinity,           \* line 185: [gas_price, block_coinbase]
    caller,             \* line 186
    state,              \* the iteration's entry of states: [indexes]
    prev,               \* history: the fork's previous case, [indexes, post]
    gated,              \* history: the forks the loop has matched, and how
    transaction,        \* line 192: the selected transaction
    backend,            \* line 196: the MemoryBackend's account state
    executor,           \* line 201: [accounts (the substate's overlay), used_gas]
    total_fee,          \* line 203
    settled,            \* lines 236-240: [actual_fee, coinbase, refund] deposited
    reason,             \* the dispatch's ExitReason
    trace,              \* the steps the current case has taken (history)
    out                 \* the console

libVars == <<resources, ISTANBUL_BUILTINS, BERLIN_BUILTINS>>
adapterVars == <<a_pc, a_builtin, a_call, a_ret>>
registryVars == <<r_spec, r_registry, r_call, r_ret>>
forkVars == <<spec, delete_empty, original_state, vicinity, caller>>
caseVars == <<state, transaction, backend, executor, total_fee, settled, reason, trace>>
runVars ==
    <<test, main_pc, pc, fork_i, variant_i, prev, gated, forkVars, caseVars, out>>
vars == <<libVars, adapterVars, registryVars, runVars>>

\* ------------------------------------------------------- accounts and backend
\* Addresses beside the resource's: the sender (derived from the secret), the
\* coinbase, a contract of the pre-state, the address a creation deploys to.
Sender == MaxAddr + 1
Coinbase == MaxAddr + 2
Contract == MaxAddr + 3
Created == MaxAddr + 4
NoTo == 0 - 1

EmptyAccount == [balance |-> 0, nonce |-> 0, code |-> <<>>]
NoAccounts == [a \in {} |-> EmptyAccount]
IsEmpty(account) ==
    account.balance = 0 /\ account.nonce = 0 /\ account.code = <<>>

\* The executor's view of an account: its substate's overlay, else the backend.
Read(accounts, bk, a) ==
    IF a \in DOMAIN accounts THEN accounts[a]
    ELSE IF a \in DOMAIN bk THEN bk[a] ELSE EmptyAccount
Write(accounts, a, account) ==
    [x \in DOMAIN accounts \cup {a} |-> IF x = a THEN account ELSE accounts[x]]

\* MemoryBackend::new(&vicinity, original_state.clone()) (line 196).
MemoryBackendReused(state0) == IF variant_i = 0 THEN state0 ELSE backend
MemoryBackendNew(state0) == state0

\* MemoryStackState::new(metadata, &backend) (lines 197-199): no account
\* written yet, no gas used.
NoExecutor == [accounts |-> NoAccounts, used_gas |-> 0]
MemoryStackStateKept == [accounts |-> executor.accounts, used_gas |-> 0]
MemoryStackStateNew == [accounts |-> NoAccounts, used_gas |-> 0]

\* executor.state_mut().withdraw(address, value): Err when the balance is short.
Withdraw(accounts, bk, a, value) ==
    LET account == Read(accounts, bk, a) IN
    IF account.balance < value
    THEN [ok |-> FALSE, accounts |-> accounts]
    ELSE [ok |-> TRUE,
          accounts |-> Write(accounts, a,
                             [account EXCEPT !.balance = account.balance - value])]

\* executor.state_mut().deposit(address, value): the balance's += panics on
\* overflow.
Deposit(accounts, bk, a, value) ==
    LET account == Read(accounts, bk, a) IN
    IF CheckedAdd(account.balance, value) = Overflow
    THEN [ok |-> FALSE, accounts |-> accounts]
    ELSE [ok |-> TRUE,
          accounts |-> Write(accounts, a,
                             [account EXCEPT !.balance = account.balance + value])]

\* backend.apply(values, logs, delete_empty) (line 242): every account of the
\* substate is written; one left empty is removed when delete_empty.
Apply(bk, accounts, del) ==
    LET keep == {a \in DOMAIN bk \cup DOMAIN accounts :
                   a \in DOMAIN accounts => ~(del /\ IsEmpty(accounts[a]))}
    IN [a \in keep |-> IF a \in DOMAIN accounts THEN accounts[a] ELSE bk[a]]

\* The hash assert_valid_hash compares: of the canonical serialization of the
\* accounts (collision-free).
StateHash(st) == {<<a, st[a].balance, st[a].nonce, st[a].code>> : a \in DOMAIN st}

\* ------------------------------------------------------------- the engine
\* The executor is the evm crate's: a deterministic function of the
\* transaction, the accounts and the precompiles.  Code is a sequence of
\* BURN (one gas), REVERT and INVALID; the pre-state's contract runs its call
\* data, a creation runs its init code and deploys no code.
Ops == {"BURN", "REVERT", "INVALID"}
IntrinsicGas == 1

RECURSIVE RunFrom(_, _, _)
RunFrom(code, i, gas_left) ==
    IF i > Len(code) THEN [halt |-> "Succeed", left |-> gas_left]
    ELSE CASE code[i] = "BURN" ->
                IF gas_left = 0 THEN [halt |-> "Error", left |-> 0]
                ELSE RunFrom(code, i + 1, gas_left - 1)
           [] code[i] = "REVERT" -> [halt |-> "Revert", left |-> gas_left]
           [] OTHER -> [halt |-> "Error", left |-> 0]

Outcome(r, used, accounts) ==
    [reason |-> r, used_gas |-> used, accounts |-> accounts]

\* executor.transact_call(caller, to, value, data, gas_limit, access_list).
\* table is the dereferenced builtin table of the fork's registry.
TransactCall(accounts, bk, from, to, value, data, gas_limit, registry, table) ==
    IF gas_limit < IntrinsicGas THEN Outcome("Error", gas_limit, accounts)
    ELSE
    LET gas == gas_limit - IntrinsicGas
        sender == Read(accounts, bk, from)
        a1 == Write(accounts, from, [sender EXCEPT !.nonce = sender.nonce + 1])
        w == Withdraw(a1, bk, from, value)
        a2 == Deposit(w.accounts, bk, to, value).accounts
    IN IF ~w.ok THEN Outcome("Error", IntrinsicGas, a1)
       ELSE IF to \in DOMAIN registry.map
       THEN LET r == EntryCall(table, registry.map[to], data, gas).result IN
            CASE r.tag = "Ok" -> Outcome("Succeed", IntrinsicGas + r.cost, a2)
              [] r.tag = "Err" -> Outcome("Error", gas_limit, a1)
              [] OTHER -> Outcome("Panic", gas_limit, a1)
       ELSE IF Read(accounts, bk, to).code # <<>>
       THEN LET r == RunFrom(data, 1, gas) IN
            CASE r.halt = "Succeed" -> Outcome("Succeed", gas_limit - r.left, a2)
              [] r.halt = "Revert" -> Outcome("Revert", gas_limit - r.left, a1)
              [] OTHER -> Outcome("Error", gas_limit, a1)
       ELSE Outcome("Succeed", IntrinsicGas, a2)

\* executor.transact_create(caller, value, code, gas_limit, access_list).
TransactCreate(accounts, bk, from, value, code, gas_limit) ==
    IF gas_limit < IntrinsicGas THEN Outcome("Error", gas_limit, accounts)
    ELSE
    LET gas == gas_limit - IntrinsicGas
        sender == Read(accounts, bk, from)
        a1 == Write(accounts, from, [sender EXCEPT !.nonce = sender.nonce + 1])
        w == Withdraw(a1, bk, from, value)
        a2 == Write(w.accounts, Created,
                    [balance |-> value, nonce |-> 1, code |-> <<>>])
        r == RunFrom(code, 1, gas)
    IN IF ~w.ok THEN Outcome("Error", IntrinsicGas, a1)
       ELSE CASE r.halt = "Succeed" -> Outcome("Succeed", gas_limit - r.left, a2)
              [] r.halt = "Revert" -> Outcome("Revert", gas_limit - r.left, a1)
              [] OTHER -> Outcome("Error", gas_limit, a1)

\* executor.fee(price): used gas times price.
Fee(used_gas, price) == CheckedMul(used_gas, price)

\* ------------------------------------------------------------- the vector
\* Test::unwrap_to_pre_state, unwrap_caller, unwrap_to_vicinity (lines 20-48).
unwrap_to_pre_state(t) == t.pre_state
unwrap_caller(t) == Sender
unwrap_to_vicinity(t) ==
    [gas_price |-> t.transaction.gas_price, origin |-> unwrap_caller(t),
     block_coinbase |-> t.env.author]

\* test.0.transaction.select(&state.indexes) (lines 192-194).
Select(tx, indexes) ==
    [to |-> tx.to, data |-> tx.data[indexes.data],
     gas_limit |-> tx.gas_limit[indexes.gas], value |-> tx.value[indexes.value]]

\* The match on spec at the head of the loop (lines 175-182).
GateByzantiumToo(f) == [supported |-> TRUE, delete_empty |-> f # "Byzantium"]
Gate(f) ==
    CASE f = "Istanbul" -> [supported |-> TRUE, delete_empty |-> TRUE]
      [] f = "Berlin" -> [supported |-> TRUE, delete_empty |-> TRUE]
      [] OTHER -> [supported |-> FALSE, delete_empty |-> FALSE]

\* `continue` (line 180): the loop goes on with the next fork.
SkipBreaks(i) == Len(test.post_forks) + 1
SkipTarget(i) == i + 1

\* let total_fee = vicinity.gas_price * gas_limit (line 203).
TotalFeeWrapping(gas_price, gas_limit) == WrappingMul(gas_price, gas_limit)
TotalFee(gas_price, gas_limit) == CheckedMul(gas_price, gas_limit)

\* total_fee - actual_fee (line 240).
Refund(total, actual) == CheckedSub(total, actual)

\* The match on transaction.to (lines 213-234).
DispatchKindAlwaysCall(tx) == "transact_call"
DispatchKind(tx) == IF tx.to = NoTo THEN "transact_create" ELSE "transact_call"

Dispatch(accounts, bk, tx, from, registry, table) ==
    IF DispatchKind(tx) = "transact_call"
    THEN TransactCall(accounts, bk, from, tx.to, tx.value, tx.data, tx.gas_limit,
                      registry, table)
    ELSE TransactCreate(accounts, bk, from, tx.value, tx.data, tx.gas_limit)

\* Whether the dispatch reaches a precompile's closure, which forces its static.
CallsPrecompile(accounts, bk, tx, from, registry) ==
    /\ tx.to # NoTo
    /\ tx.to \in DOMAIN registry.map
    /\ tx.gas_limit >= IntrinsicGas
    /\ Read(accounts, bk, from).balance >= tx.value

\* Lines 236-240: the fee, the deposit to the coinbase, the refund.
\* step: 0 = panicked before any deposit, 1 = after the coinbase's, 2 = done.
Settle(accounts, bk, coinbase, from, total, used_gas, gas_price) ==
    LET actual_fee == Fee(used_gas, gas_price)
        d1 == Deposit(accounts, bk, coinbase, actual_fee)
        refund == Refund(total, actual_fee)
        d2 == Deposit(d1.accounts, bk, from, refund)
    IN IF actual_fee = Overflow \/ ~d1.ok
       THEN [step |-> 0, actual_fee |-> 0, refund |-> 0, accounts |-> accounts]
       ELSE IF refund = Overflow \/ ~d2.ok
       THEN [step |-> 1, actual_fee |-> actual_fee, refund |-> 0,
             accounts |-> d1.accounts]
       ELSE [step |-> 2, actual_fee |-> actual_fee, refund |-> refund,
             accounts |-> d2.accounts]

\* assert_valid_hash(&state.hash.0, backend.state()) (line 243): panics unless
\* the hash of the backend's accounts is the expected one.
assert_valid_hash(hash, st) == StateHash(st) = hash

\* child.join().unwrap() (line 170): the thread's panic is the caller's.
JoinIgnored(child) == "returned"
JoinUnwrap(child) == IF child = "panicked" THEN "panicked" ELSE "returned"

\* The post-state of one case run alone on the vector's pre-state with tables
\* read afresh from the resources: what a reference run of the case yields.
StaticName(f) == IF f = "Istanbul" THEN "ISTANBUL_BUILTINS" ELSE "BERLIN_BUILTINS"
CaseResult(t, f, indexes) ==
    LET tx == Select(t.transaction, indexes)
        vic == unwrap_to_vicinity(t)
        from == unwrap_caller(t)
        bk == unwrap_to_pre_state(t)
        registry == precompile(f)
        table == builtins(resources, PathOf(StaticName(f)))
        total == TotalFee(vic.gas_price, tx.gas_limit)
        w == Withdraw(NoAccounts, bk, from, total)
        o == Dispatch(w.accounts, bk, tx, from, registry, table)
        s == Settle(o.accounts, bk, vic.block_coinbase, from, total, o.used_gas,
                    vic.gas_price)
    IN IF total = Overflow \/ ~w.ok \/ o.reason = "Panic" \/ s.step # 2
       THEN [panic |-> TRUE, state |-> bk]
       ELSE [panic |-> FALSE, state |-> Apply(bk, s.accounts, Gate(f).delete_empty)]

\* The hashes a vector may expect of a case: the reference run's, or (a vector
\* that is wrong) the pre-state's.
ExpectedHashes(t, f, indexes) ==
    {StateHash(t.pre_state)} \cup
    (IF CaseResult(t, f, indexes).panic THEN {}
     ELSE {StateHash(CaseResult(t, f, indexes).state)})

\* The vectors considered.
PreState ==
    [a \in {Sender, Contract} |->
       IF a = Sender THEN [balance |-> U256Max \div 2, nonce |-> 0, code |-> <<>>]
       ELSE [balance |-> 0, nonce |-> 0, code |-> <<"EXEC">>]]
DataArrays ==
    { << <<>>, <<"BURN", "REVERT">> >>,
      << <<"BURN">>, <<"INVALID">> >>,
      << <<"BURN", "BURN">>, <<"REVERT">> >> }
GasArrays == { <<0, U64Max>>, <<1, U64Max - 1>> }
GasPrices == {0, 1, U256Max \div 2}
Tos == {NoTo, Contract, FromLowU64Be(4)}
ForkSeqs ==
    {fs \in UNION {[1..n -> Forks] : n \in 1..Min(MaxForks, Cardinality(Forks))} :
       \A i, j \in DOMAIN fs : i # j => fs[i] # fs[j]}
Indexes == [data : 1..2, gas : 1..2, value : 1..1]
NoIndexes == [data |-> 0, gas |-> 0, value |-> 0]
Vectors ==
    {[pre_state |-> PreState,
      transaction |-> [to |-> to, data |-> d, gas_limit |-> g, value |-> <<1>>,
                       gas_price |-> p],
      env |-> [author |-> Coinbase],
      post_forks |-> fs] :
       to \in Tos, d \in DataArrays, g \in GasArrays, p \in GasPrices, fs \in ForkSeqs}

\* ------------------------------------------------------------ initial values
Uninit == [init |-> FALSE, table |-> <<>>]
NoCall == [input |-> <<>>, gas_limit |-> NoGas]
NoEntryCall == [address |-> 0, input |-> <<>>, gas_limit |-> NoGas]
NoRet == [result |-> [tag |-> "None"], executed |-> FALSE]

StaticOf(name) ==
    IF name = "ISTANBUL_BUILTINS" THEN ISTANBUL_BUILTINS ELSE BERLIN_BUILTINS

InitLibIdle ==
    /\ resources = [p \in Paths |-> ResourceFile(PrecompileIndexes)]
    /\ ISTANBUL_BUILTINS = Uninit
    /\ BERLIN_BUILTINS = Uninit
InitAdapterIdle ==
    /\ a_pc = "idle"
    /\ a_builtin = BuiltinAt(1)
    /\ a_call = NoCall
    /\ a_ret = NoRet
InitRegistryIdle ==
    /\ r_spec = "None"
    /\ r_registry = NoRegistry
    /\ r_call = NoEntryCall
    /\ r_ret = NoRet

NoSettled == [step |-> 0, actual_fee |-> 0, refund |-> 0]
NoState == [indexes |-> NoIndexes, hash |-> {}]
NoPrev == [indexes |-> NoIndexes, post |-> {}]
NoTransaction == [to |-> NoTo, data |-> <<>>, gas_limit |-> 0, value |-> 0]

InitCaseLocals ==
    /\ fork_i = 0
    /\ variant_i = 0
    /\ prev = NoPrev
    /\ gated = <<>>
    /\ spec = "None"
    /\ delete_empty = FALSE
    /\ original_state = NoAccounts
    /\ vicinity = [gas_price |-> 0, origin |-> Sender, block_coinbase |-> Coinbase]
    /\ caller = Sender
    /\ state = NoState
    /\ transaction = NoTransaction
    /\ backend = NoAccounts
    /\ executor = NoExecutor
    /\ total_fee = 0
    /\ settled = NoSettled
    /\ reason = "None"
    /\ trace = <<>>
    /\ out = <<>>

InitRunIdle ==
    /\ test = [pre_state |-> PreState,
               transaction |-> [to |-> NoTo, data |-> << <<>>, <<>> >>,
                                gas_limit |-> <<0, 0>>, value |-> <<1>>,
                                gas_price |-> 0],
               env |-> [author |-> Coinbase], post_forks |-> <<>>]
    /\ main_pc = "idle"
    /\ pc = "idle"
    /\ InitCaseLocals

\* ------------------------------------------------- test(name, test), test_run
Init ==
    /\ InitLibIdle
    /\ InitAdapterIdle
    /\ InitRegistryIdle
    /\ test \in Vectors
    /\ main_pc = "start"
    /\ pc = "idle"
    /\ InitCaseLocals

others == <<adapterVars, registryVars, test>>

\* test(): the thread running test_run is spawned (lines 164-167).
Spawn ==
    /\ main_pc = "start"
    /\ main_pc' = "joining"
    /\ pc' = "fork"
    /\ fork_i' = 1
    /\ UNCHANGED <<libVars, others, variant_i, prev, gated, forkVars, caseVars, out>>

\* test(): child.join().unwrap() (line 170).
Join ==
    /\ main_pc = "joining"
    /\ pc \in {"done", "panicked"}
    /\ main_pc' = JoinUnwrap(pc)
    /\ UNCHANGED <<libVars, others, pc, fork_i, variant_i, prev, gated, forkVars,
                   caseVars, out>>

\* The for over post_states ends (line 247).
EndRun ==
    /\ pc = "fork"
    /\ fork_i > Len(test.post_forks)
    /\ pc' = "done"
    /\ UNCHANGED <<libVars, others, main_pc, fork_i, variant_i, prev, gated,
                   forkVars, caseVars, out>>

\* A fork the match does not name: printed and skipped (lines 178-181).
SkipFork ==
    /\ pc = "fork"
    /\ fork_i <= Len(test.post_forks)
    /\ ~Gate(test.post_forks[fork_i]).supported
    /\ out' = Append(out, <<"Skip", test.post_forks[fork_i]>>)
    /\ gated' = Append(gated, <<test.post_forks[fork_i], "skip">>)
    /\ fork_i' = SkipTarget(fork_i)
    /\ UNCHANGED <<libVars, others, main_pc, pc, variant_i, prev, forkVars, caseVars>>

\* A fork the match names (lines 175-186).
EnterFork ==
    /\ pc = "fork"
    /\ fork_i <= Len(test.post_forks)
    /\ Gate(test.post_forks[fork_i]).supported
    /\ spec' = test.post_forks[fork_i]
    /\ delete_empty' = Gate(test.post_forks[fork_i]).delete_empty
    /\ original_state' = unwrap_to_pre_state(test)
    /\ vicinity' = unwrap_to_vicinity(test)
    /\ caller' = unwrap_caller(test)
    /\ variant_i' = 0
    /\ prev' = NoPrev
    /\ gated' = Append(gated, <<test.post_forks[fork_i], "run">>)
    /\ pc' = "variant"
    /\ UNCHANGED <<libVars, others, main_pc, fork_i, caseVars, out>>

\* The fork's states are exhausted: the iteration's locals are dropped and
\* the loop goes on with the next fork.
EndFork ==
    /\ pc = "variant"
    /\ fork_i' = fork_i + 1
    /\ pc' = "fork"
    /\ state' = NoState
    /\ transaction' = NoTransaction
    /\ backend' = NoAccounts
    /\ executor' = NoExecutor
    /\ total_fee' = 0
    /\ settled' = NoSettled
    /\ reason' = "None"
    /\ trace' = <<>>
    /\ prev' = NoPrev
    /\ variant_i' = 0
    /\ UNCHANGED <<libVars, others, main_pc, gated, forkVars, out>>

\* The next entry of states: lines 188-202.
BeginCase ==
    /\ pc = "variant"
    /\ variant_i < MaxVariants
    /\ \E indexes \in Indexes :
         /\ state' = [indexes |-> indexes, hash |-> {}]
         /\ transaction' = Select(test.transaction, indexes)
    /\ out' = Append(out, <<"Running", spec, variant_i>>)
    /\ backend' = MemoryBackendNew(original_state)
    /\ executor' = MemoryStackStateNew
    /\ total_fee' = 0
    /\ settled' = NoSettled
    /\ reason' = "None"
    /\ trace' = <<>>
    /\ pc' = IF precompile(spec).some THEN "withdraw" ELSE "panicked"
    /\ UNCHANGED <<libVars, others, main_pc, fork_i, variant_i, prev, gated, forkVars>>

\* Lines 203-205: total_fee, and its withdrawal from the caller.
WithdrawFee ==
    /\ pc = "withdraw"
    /\ LET total == TotalFee(vicinity.gas_price, transaction.gas_limit)
           w == Withdraw(executor.accounts, backend, caller,
                         IF total = Overflow THEN 0 ELSE total)
       IN IF total = Overflow
          THEN /\ pc' = "panicked"
               /\ UNCHANGED <<total_fee, executor, trace>>
          ELSE /\ total_fee' = total
               /\ IF w.ok
                  THEN /\ executor' = [executor EXCEPT !.accounts = w.accounts]
                       /\ trace' = Append(trace, "withdraw")
                       /\ pc' = "dispatch"
                  ELSE /\ pc' = "panicked"
                       /\ UNCHANGED <<executor, trace>>
    /\ UNCHANGED <<libVars, others, main_pc, fork_i, variant_i, prev, gated, forkVars,
                   state, transaction, backend, settled, reason, out>>

\* The statics after a dispatch: the fork's is forced when a precompile ran.
StaticsAfterDispatch ==
    LET forced == CallsPrecompile(executor.accounts, backend, transaction, caller,
                                  precompile(spec))
    IN /\ ISTANBUL_BUILTINS' =
            IF forced /\ StaticName(spec) = "ISTANBUL_BUILTINS"
            THEN Forced(ISTANBUL_BUILTINS, resources, PathOf("ISTANBUL_BUILTINS"))
            ELSE ISTANBUL_BUILTINS
       /\ BERLIN_BUILTINS' =
            IF forced /\ StaticName(spec) = "BERLIN_BUILTINS"
            THEN Forced(BERLIN_BUILTINS, resources, PathOf("BERLIN_BUILTINS"))
            ELSE BERLIN_BUILTINS
       /\ UNCHANGED resources

DispatchStep(kind) ==
    /\ pc = "dispatch"
    /\ DispatchKind(transaction) = kind
    /\ LET table == Deref(StaticOf(StaticName(spec)), resources,
                          PathOf(StaticName(spec)))
           o == Dispatch(executor.accounts, backend, transaction, caller,
                         precompile(spec), table)
       IN /\ executor' = [accounts |-> o.accounts, used_gas |-> o.used_gas]
          /\ reason' = o.reason
          /\ pc' = IF o.reason = "Panic" THEN "panicked" ELSE "settle"
    /\ trace' = Append(trace, kind)
    /\ StaticsAfterDispatch
    /\ UNCHANGED <<others, main_pc, fork_i, variant_i, prev, gated, forkVars,
                   state, transaction, backend, total_fee, settled, out>>

\* Lines 214-226: a recipient is present.
DispatchCall == DispatchStep("transact_call")

\* Lines 227-233: no recipient.
DispatchCreate == DispatchStep("transact_create")

\* Lines 236-240: fee settlement.
SettleFee ==
    /\ pc = "settle"
    /\ LET s == Settle(executor.accounts, backend, vicinity.block_coinbase, caller,
                       total_fee, executor.used_gas, vicinity.gas_price)
       IN /\ executor' = [executor EXCEPT !.accounts = s.accounts]
          /\ settled' = [step |-> s.step, actual_fee |-> s.actual_fee,
                         refund |-> s.refund]
          /\ trace' = CASE s.step = 0 -> trace
                        [] s.step = 1 -> Append(trace, "deposit_coinbase")
                        [] OTHER -> trace \o <<"deposit_coinbase", "deposit_refund">>
          /\ pc' = IF s.step = 2 THEN "apply" ELSE "panicked"
    /\ UNCHANGED <<libVars, others, main_pc, fork_i, variant_i, prev, gated, forkVars,
                   state, transaction, backend, total_fee, reason, out>>

\* Lines 241-242: the substate's accounts are applied to the backend.
ApplyDiff ==
    /\ pc = "apply"
    /\ backend' = Apply(backend, executor.accounts, delete_empty)
    /\ trace' = Append(trace, "apply")
    /\ pc' = "verify"
    /\ UNCHANGED <<libVars, others, main_pc, fork_i, variant_i, prev, gated, forkVars,
                   state, transaction, executor, total_fee, settled, reason, out>>

\* Lines 243-245: the hash is verified, then "passed" is printed.
Verify ==
    /\ pc = "verify"
    /\ \E hash \in ExpectedHashes(test, spec, state.indexes) :
         /\ state' = [state EXCEPT !.hash = hash]
         /\ IF assert_valid_hash(hash, backend)
            THEN /\ out' = Append(out, <<"passed", spec, variant_i>>)
                 /\ variant_i' = variant_i + 1
                 /\ prev' = [indexes |-> state.indexes, post |-> StateHash(backend)]
                 /\ pc' = "variant"
            ELSE /\ pc' = "panicked"
                 /\ UNCHANGED <<out, variant_i, prev>>
    /\ trace' = Append(trace, "verify")
    /\ UNCHANGED <<libVars, others, main_pc, fork_i, gated, forkVars, transaction, backend,
                   executor, total_fee, settled, reason>>

Next ==
    \/ Spawn \/ Join \/ EndRun \/ SkipFork \/ EnterFork \/ EndFork \/ BeginCase
    \/ WithdrawFee \/ DispatchCall \/ DispatchCreate \/ SettleFee \/ ApplyDiff
    \/ Verify

Spec == Init /\ [][Next]_vars

\* ------------------------------------------------- the adapter, used directly
InitAdapter ==
    /\ InitLibIdle
    /\ InitRegistryIdle
    /\ InitRunIdle
    /\ a_pc = "ready"
    /\ a_builtin \in Builtins
    /\ a_call = NoCall
    /\ a_ret = NoRet

\* One call of exec_as_precompile(builtin, input, gas_limit).
AdapterCall ==
    /\ a_pc \in {"ready", "returned"}
    /\ \E input \in Inputs, gas_limit \in GasLimits :
         /\ a_call' = [input |-> input, gas_limit |-> gas_limit]
         /\ a_ret' = exec_as_precompile(a_builtin, input, gas_limit)
    /\ a_pc' = IF a_ret'.result.tag = "Panic" THEN "panicked" ELSE "returned"
    /\ UNCHANGED <<a_builtin, libVars, registryVars, runVars>>

NextAdapter == AdapterCall
SpecAdapter == InitAdapter /\ [][NextAdapter]_vars

\* ------------------------------------------------ the registry, used directly
InitRegistry ==
    /\ resources \in [Paths -> ResourceFiles]
    /\ ISTANBUL_BUILTINS = Uninit
    /\ BERLIN_BUILTINS = Uninit
    /\ InitAdapterIdle
    /\ InitRegistryIdle
    /\ InitRunIdle

\* JsonPrecompile::precompile(spec) for some fork.
Precompile ==
    /\ r_ret.result.tag # "Panic"
    /\ \E f \in Forks :
         /\ r_spec' = f
         /\ r_registry' = precompile(f)
    /\ r_call' = NoEntryCall
    /\ r_ret' = NoRet
    /\ UNCHANGED <<libVars, adapterVars, runVars>>

\* A call of one entry of the registry last returned: the static is forced,
\* then the closure runs.
CallEntry ==
    /\ r_registry.some
    /\ r_ret.result.tag # "Panic"
    /\ \E address \in DOMAIN r_registry.map, input \in {<<>>, <<1>>},
          gas_limit \in {NoGas, U64Max} :
         LET entry == r_registry.map[address]
             path == PathOf(entry.builtins)
             table == Deref(StaticOf(entry.builtins), resources, path)
         IN /\ r_call' = [address |-> address, input |-> input, gas_limit |-> gas_limit]
            /\ r_ret' = EntryCall(table, entry, input, gas_limit)
            /\ ISTANBUL_BUILTINS' =
                 IF entry.builtins = "ISTANBUL_BUILTINS"
                 THEN Forced(ISTANBUL_BUILTINS, resources, path) ELSE ISTANBUL_BUILTINS
            /\ BERLIN_BUILTINS' =
                 IF entry.builtins = "BERLIN_BUILTINS"
                 THEN Forced(BERLIN_BUILTINS, resources, path) ELSE BERLIN_BUILTINS
    /\ UNCHANGED <<resources, r_spec, r_registry, adapterVars, runVars>>

NextRegistry == Precompile \/ CallEntry
SpecRegistry == InitRegistry /\ [][NextRegistry]_vars

\* ------------------------------------------------------------------ claims
InCase == {"withdraw", "dispatch", "settle", "apply", "verify"}
Supported == {"Istanbul", "Berlin"}

RECURSIVE SumBalances(_, _)
SumBalances(view, addrs) ==
    IF addrs = {} THEN 0
    ELSE LET a == CHOOSE x \in addrs : TRUE IN
         view[a].balance + SumBalances(view, addrs \ {a})
Supply(st) == SumBalances(st, DOMAIN st)
View == [a \in DOMAIN executor.accounts \cup DOMAIN backend |->
           Read(executor.accounts, backend, a)]

\* C1: in every executed case total_fee is the product gas_price * gas_limit
\* (the exact product, never a wrapped one), and once the fees are settled the
\* coinbase's deposit plus the sender's refund is total_fee, the deposit being
\* the fee of the gas used; no balance is created or destroyed.
C1_FeeSettlementConserves ==
    /\ pc \in {"dispatch", "settle", "apply", "verify"} =>
         total_fee = vicinity.gas_price * transaction.gas_limit
    /\ pc = "apply" =>
         /\ settled.step = 2
         /\ settled.actual_fee = executor.used_gas * vicinity.gas_price
         /\ settled.actual_fee + settled.refund = total_fee
         /\ Supply(View) = Supply(test.pre_state)
C1_Witness ==
    pc = "apply" /\ settled.actual_fee > 0 /\ settled.refund > 0

\* C2: a call of the adapter with a gas limit below the builtin's cost, or with
\* a cost beyond u64 (a gas limit being supplied), returns the OutOfGas error
\* and builtin.execute is not invoked.
C2_OutOfGasShortCircuits ==
    (/\ a_pc \in {"returned", "panicked"}
     /\ a_call.gas_limit # NoGas
     /\ \/ a_call.gas_limit < BuiltinCost(a_builtin, a_call.input)
        \/ BuiltinCost(a_builtin, a_call.input) > U64Max)
    => /\ a_ret.result = [tag |-> "Err", exit_status |-> "OutOfGas"]
       /\ ~a_ret.executed
C2_Witness ==
    /\ a_pc = "returned"
    /\ a_builtin.kind = "identity"
    /\ a_call.gas_limit # NoGas
    /\ a_call.gas_limit < BuiltinCost(a_builtin, a_call.input)
    /\ BuiltinCost(a_builtin, a_call.input) <= U64Max

\* C3 as stated: for Istanbul and Berlin the registry's keys are exactly the
\* addresses the fork's resource defines and every entry can be called; for
\* any other fork there is no registry.
C3_KeysAreResourceAddresses ==
    /\ r_spec \in Supported =>
         /\ r_registry.some
         /\ DOMAIN r_registry.map = DOMAIN resources[PathOf(StaticName(r_spec))]
         /\ r_ret.result.tag # "Panic"
    /\ r_spec \in Forks \ Supported => ~r_registry.some

\* C3 as amended: for Istanbul and Berlin the registry's keys are the addresses
\* 1..9 whatever the fork's resource defines, each entry reads the fork's own
\* table, and a call of an entry reaches the adapter, on the builtin the
\* resource gives the address, exactly when the resource defines the address
\* (it panics in the lookup otherwise); for any other fork there is no registry.
C3_KeysAreOneToNine ==
    /\ r_spec \in Supported =>
         /\ r_registry.some
         /\ DOMAIN r_registry.map = 1..9
         /\ \A a \in DOMAIN r_registry.map :
              /\ r_registry.map[a].index = a
              /\ r_registry.map[a].builtins = StaticName(r_spec)
         /\ r_call.address # 0 =>
              LET file == resources[PathOf(StaticName(r_spec))] IN
              r_ret = IF r_call.address \in DOMAIN file
                      THEN exec_as_precompile(file[r_call.address], r_call.input,
                                              r_call.gas_limit)
                      ELSE [result |-> [tag |-> "Panic"], executed |-> FALSE]
    /\ r_spec \in Forks \ Supported => ~r_registry.some
C3_Witness ==
    /\ r_spec = "Berlin"
    /\ DOMAIN resources[PathOf(StaticName(r_spec))] # 1..9
    /\ r_call.address = 9
    /\ r_ret.result.tag = "Panic"

\* C4: within a vector every case starts from the vector's pre-state: whatever
\* the cases before it did, original_state is the pre-state, and the backend
\* and the substate a case starts with are the pre-state with nothing written.
C4_CaseStartsFromPreState ==
    /\ pc \in InCase \cup {"variant"} => original_state = test.pre_state
    /\ pc = "withdraw" =>
         /\ backend = test.pre_state
         /\ executor.accounts = NoAccounts
C4_Witness ==
    /\ pc = "variant"
    /\ variant_i >= 1
    /\ DOMAIN backend # DOMAIN test.pre_state
    /\ backend[Sender] # test.pre_state[Sender]

\* C5: the post-state a case is verified on is that of the case run alone on
\* the pre-state (a function of the vector, the fork and the indexes), so a
\* case run again in the same fork reaches the post-state it reached before;
\* a builtin table once cached is the table its resource holds.
C5_CaseIsDeterministic ==
    /\ pc = "verify" =>
         /\ ~CaseResult(test, spec, state.indexes).panic
         /\ backend = CaseResult(test, spec, state.indexes).state
         /\ prev.indexes = state.indexes => StateHash(backend) = prev.post
    /\ ISTANBUL_BUILTINS.init =>
         ISTANBUL_BUILTINS.table = builtins(resources, "istanbul_builtins.json")
    /\ BERLIN_BUILTINS.init =>
         BERLIN_BUILTINS.table = builtins(resources, "berlin_builtins.json")
C5_Witness ==
    /\ pc = "verify"
    /\ variant_i >= 1
    /\ prev.indexes = state.indexes
    /\ backend # test.pre_state
    /\ reason = "Succeed"

\* C6: a fork other than Istanbul and Berlin is skipped without failing: it is
\* noted on the console, no case of it is run, and the loop goes on, so that a
\* run that ends has matched every fork of the vector in order.
Range(f) == {f[i] : i \in DOMAIN f}
GateOf(f) == <<f, IF f \in Supported THEN "run" ELSE "skip">>
C6_UnsupportedForkSkipped ==
    /\ Len(gated) <= Len(test.post_forks)
    /\ \A p \in DOMAIN gated : gated[p] = GateOf(test.post_forks[p])
    /\ pc = "done" => Len(gated) = Len(test.post_forks)
    /\ \A p \in DOMAIN gated :
         gated[p][2] = "skip" =>
           /\ <<"Skip", gated[p][1]>> \in Range(out)
           /\ \A i \in 0..MaxVariants :
                /\ <<"Running", gated[p][1], i>> \notin Range(out)
                /\ <<"passed", gated[p][1], i>> \notin Range(out)
    /\ pc \in InCase \cup {"variant"} => spec \in Supported
    /\ (pc = "panicked" \/ trace # <<>>) =>
         /\ spec \in Supported
         /\ gated[Len(gated)] = <<spec, "run">>
C6_Witness ==
    /\ pc = "verify"
    /\ Len(gated) = 2
    /\ gated[1] = <<"Byzantium", "skip">>
    /\ out[1] = <<"Skip", "Byzantium">>

\* C7: the steps of a case come in the order withdraw, one dispatch
\* (transact_call with a recipient, transact_create without), the coinbase's
\* deposit, the sender's refund, the diff's application, the verification; no
\* dispatch outcome stops the settlement (a case fails only before its
\* withdrawal or at its verification), and whether a verified case passes is
\* decided by the hashes alone.
CaseSteps(to) ==
    <<"withdraw", IF to = NoTo THEN "transact_create" ELSE "transact_call",
      "deposit_coinbase", "deposit_refund", "apply", "verify">>
StepsAt(at) ==
    CASE at = "withdraw" -> 0
      [] at = "dispatch" -> 1
      [] at = "settle" -> 2
      [] at = "apply" -> 4
      [] at = "verify" -> 5
      [] OTHER -> 6
C7_StepsInOrder ==
    /\ Len(trace) <= 6
    /\ \A i \in DOMAIN trace : trace[i] = CaseSteps(transaction.to)[i]
    /\ pc \in InCase => Len(trace) = StepsAt(pc)
    /\ pc = "panicked" => Len(trace) \in {0, 6}
    /\ pc \in {"settle", "apply", "verify"} => reason \in {"Succeed", "Revert", "Error"}
    /\ Len(trace) = 6 => (pc = "panicked" <=> StateHash(backend) # state.hash)
C7_Witness ==
    /\ pc = "verify"
    /\ reason = "Revert"
    /\ transaction.to # NoTo
    /\ trace = <<"withdraw", "transact_call", "deposit_coinbase", "deposit_refund",
                 "apply">>

\* C8: a case is printed as passed only when the hash of the backend's
\* post-state is the expected one; a mismatch panics the thread, test() panics
\* when it joins it (and returns only when test_run has ended), and once the
\* thread has panicked no fork and no variant is run any more.
AbortIsFinal ==
    pc = "panicked" =>
      UNCHANGED <<pc, fork_i, variant_i, prev, gated, forkVars, caseVars, out, libVars>>
C8_PassOnlyOnMatch ==
    /\ [](/\ (pc = "variant" /\ variant_i > 0) =>
               /\ out[Len(out)] = <<"passed", spec, variant_i - 1>>
               /\ StateHash(backend) = state.hash
          /\ (Len(trace) = 6 /\ StateHash(backend) # state.hash) =>
               /\ pc = "panicked"
               /\ out[Len(out)] = <<"Running", spec, variant_i>>
          /\ main_pc = "returned" => pc = "done"
          /\ (pc = "panicked" /\ main_pc \notin {"start", "joining"}) =>
               main_pc = "panicked")
    /\ [][AbortIsFinal]_vars
C8_Witness ==
    /\ main_pc = "panicked"
    /\ Len(trace) = 6
    /\ StateHash(backend) # state.hash
    /\ variant_i = 1
    /\ fork_i < Len(test.post_forks)
    /\ test.post_forks[fork_i + 1] \in Supported

\* C9 as stated: whenever the out-of-gas check does not fire (no gas limit, or
\* a gas limit that covers a cost within u64) the adapter returns a value: on
\* the builtin's success the output, Stopped, the cost as the gas consumed and
\* no logs; on the builtin's failure the Other error.
C9_AdapterAlwaysReturns ==
    (/\ a_pc \in {"returned", "panicked"}
     /\ \/ a_call.gas_limit = NoGas
        \/ /\ BuiltinCost(a_builtin, a_call.input) <= U64Max
           /\ a_call.gas_limit >= BuiltinCost(a_builtin, a_call.input))
    => /\ a_pc = "returned"
       /\ a_ret.executed
       /\ a_ret.result =
            IF BuiltinExecute(a_builtin, a_call.input).ok
            THEN [tag |-> "Ok", exit_status |-> "Stopped",
                  output |-> BuiltinExecute(a_builtin, a_call.input).output,
                  cost |-> BuiltinCost(a_builtin, a_call.input), logs |-> <<>>]
            ELSE [tag |-> "Err", exit_status |-> "Other"]

\* C10: the forks the loop's match lets through are the forks precompile()
\* has a registry for, so the unwrap of line 200 never panics: a case that has
\* begun has a registry, and a case fails only at its withdrawal or its
\* verification.
C10_GateMatchesRegistry ==
    /\ \A f \in Forks : Gate(f).supported <=> precompile(f).some
    /\ pc \in InCase \cup {"variant"} => precompile(spec).some
    /\ pc = "panicked" =>
         /\ precompile(spec).some
         /\ \/ Len(trace) = 6
            \/ TotalFee(vicinity.gas_price, transaction.gas_limit) = Overflow
            \/ ~Withdraw(NoAccounts, backend, caller,
                         vicinity.gas_price * transaction.gas_limit).ok
C10_Witness ==
    /\ pc = "withdraw"
    /\ spec = "Berlin"
    /\ gated = << <<"Byzantium", "skip">>, <<"Berlin", "run">> >>

=============================================================================
